---- MODULE Spec2Model ----
(***************************************************************************)
(* zhuomingliang/watchman, listener.c: the client session and dispatch     *)
(* subsystem of the watchman daemon.                                       *)
(*                                                                         *)
(*   - the clock and cursor service (clock_id_string, w_parse_clockspec),  *)
(*   - the per-client response queue (enqueue_response, client_delete),    *)
(*   - the dispatcher (dispatch_command, cmd_shutdown),                    *)
(*   - the session worker (client_thread), the accept loop                 *)
(*     (w_start_listener), the log broadcaster (w_log_to_clients) and the  *)
(*     reaper (child_reaper).                                              *)
(*                                                                         *)
(* Threads are the accept thread, the reaper, one worker per session and   *)
(* one external thread (the watch engine's notifier / log sink).  A step   *)
(* is either one region run under a lock, or one system call, or one       *)
(* access to shared memory made without a lock.                            *)
(***************************************************************************)
EXTENDS Integers, Sequences, FiniteSets, TLC

(***************************************************************************)
(* Bounds of the model.                                                    *)
(***************************************************************************)
\* connection handles the accept loop can hand out (sessions alive at once)
MaxFd == 2
\* response nodes calloc'ed over a run (each gets a serial number)
MaxMsgs == 3
\* sessions accepted over a run
MaxAccepts == 2
\* nesting depth of the recursive sessions lock
MaxDepth == 2
\* bytes the wakeup pipe holds before a non-blocking write fails
MaxPing == 2
\* w_parse_clockspec / annotate_with_clock calls over a run
MaxCalls == 3

(***************************************************************************)
(* 32-bit unsigned ticks.  A tick is kept as two 16-bit limbs <<hi, lo>>,  *)
(* so that the counter has its real width and wraps at 2^32.               *)
(***************************************************************************)
Limb == 2^16

TickZero == <<0, 0>>
TickMax == <<Limb - 1, Limb - 1>>

\* uint32_t ++ (wraps to 0 from 2^32 - 1)
TickInc(t) ==
  IF t[2] = Limb - 1 THEN <<(t[1] + 1) % Limb, 0>> ELSE <<t[1], t[2] + 1>>

TickLess(a, b) == a[1] < b[1] \/ (a[1] = b[1] /\ a[2] < b[2])
TickLeq(a, b) == a = b \/ TickLess(a, b)

\* a faulty accumulation that loses the carry into the high limb: the round
\* trip of a clock string tells it from the conversion's
TickMul10Add_no_carry(t, d) ==
  <<(t[1] * 10) % Limb, (t[2] * 10 + d) % Limb>>

\* value * 10 + d on 32 bits (the accumulation of a decimal conversion)
TickMul10Add(t, d) ==
  LET lo == t[2] * 10 + d
      hi == t[1] * 10 + (lo \div Limb)
  IN  <<hi % Limb, lo % Limb>>

\* quotient and remainder of a 32-bit value by 10
TickDivMod10(t) ==
  LET x == (t[1] % 10) * Limb + t[2]
  IN  [q |-> <<t[1] \div 10, x \div 10>>, r |-> x % 10]

(***************************************************************************)
(* Strings are sequences of characters; NUL ends a C string.               *)
(***************************************************************************)
NUL == "\\0"
DigitChars == <<"0", "1", "2", "3", "4", "5", "6", "7", "8", "9">>
IsDigit(c) == \E d \in 1..10 : DigitChars[d] = c
DigitVal(c) == (CHOOSE d \in 1..10 : DigitChars[d] = c) - 1
CharAt(s, i) == IF i >= 1 /\ i <= Len(s) THEN s[i] ELSE NUL
Min(a, b) == IF a < b THEN a ELSE b

\* "%d" of a non-negative or negative int
RECURSIVE NatToDec(_)
NatToDec(n) ==
  IF n < 10 THEN <<DigitChars[n + 1]>>
  ELSE NatToDec(n \div 10) \o <<DigitChars[(n % 10) + 1]>>
IntToDec(n) == IF n < 0 THEN <<"-">> \o NatToDec(0 - n) ELSE NatToDec(n)

\* "%" PRIu32
RECURSIVE U32ToDec(_)
U32ToDec(t) ==
  LET dm == TickDivMod10(t)
  IN  IF dm.q = TickZero THEN <<DigitChars[dm.r + 1]>>
      ELSE U32ToDec(dm.q) \o <<DigitChars[dm.r + 1]>>

\* the process id of this server
getpid == 4242

\* snprintf(buf, bufsize, "c:%d:%" PRIu32, pid, ticks): the whole text
snprintf_clock(pid, ticks) ==
  <<"c", ":">> \o IntToDec(pid) \o <<":">> \o U32ToDec(ticks)

\* clock_id_string: false when the text did not fit the buffer
clock_id_string(ticks, bufsize) ==
  LET text == snprintf_clock(getpid, ticks)
      res == Len(text)
  IN  [ok |-> res < bufsize, buf |-> SubSeq(text, 1, Min(res, bufsize - 1))]

\* current_clock_id_string(root, buf, bufsize)
current_clock_id_string(ticks, bufsize) == clock_id_string(ticks, bufsize)

(***************************************************************************)
(* sscanf(str, "c:%d:%" PRIu32, &pid, &since->ticks)                       *)
(***************************************************************************)
RECURSIVE SkipSpace(_, _)
SkipSpace(s, i) == IF CharAt(s, i) = " " THEN SkipSpace(s, i + 1) ELSE i

\* the digits from position i on: [v, i] with i the first position not read
RECURSIVE ScanNat(_, _, _)
ScanNat(s, i, acc) ==
  IF IsDigit(CharAt(s, i)) THEN ScanNat(s, i + 1, acc * 10 + DigitVal(s[i]))
  ELSE [v |-> acc, i |-> i]

RECURSIVE ScanU32(_, _, _)
ScanU32(s, i, acc) ==
  IF IsDigit(CharAt(s, i)) THEN ScanU32(s, i + 1, TickMul10Add(acc, DigitVal(s[i])))
  ELSE [v |-> acc, i |-> i]

\* "%d": blanks, an optional sign, at least one digit
ScanInt(s, i0) ==
  LET i == SkipSpace(s, i0)
      neg == CharAt(s, i) = "-"
      j == IF CharAt(s, i) \in {"-", "+"} THEN i + 1 ELSE i
      r == ScanNat(s, j, 0)
  IN  [ok |-> IsDigit(CharAt(s, j)), v |-> IF neg THEN 0 - r.v ELSE r.v, i |-> r.i]

\* "%" PRIu32 in a scan: blanks, an optional "+", at least one digit
ScanUnsigned(s, i0) ==
  LET i == SkipSpace(s, i0)
      j == IF CharAt(s, i) = "+" THEN i + 1 ELSE i
      r == ScanU32(s, j, TickZero)
  IN  [ok |-> IsDigit(CharAt(s, j)), v |-> r.v, i |-> r.i]

\* n is sscanf's return value: the number of conversions stored
sscanf_clock(s) ==
  IF CharAt(s, 1) # "c" \/ CharAt(s, 2) # ":" THEN [n |-> 0, pid |-> 0, ticks |-> TickZero]
  ELSE LET d == ScanInt(s, 3)
       IN  IF ~d.ok THEN [n |-> 0, pid |-> 0, ticks |-> TickZero]
           ELSE IF CharAt(s, d.i) # ":" THEN [n |-> 1, pid |-> d.v, ticks |-> TickZero]
           ELSE LET u == ScanUnsigned(s, d.i + 1)
                IN  IF ~u.ok THEN [n |-> 1, pid |-> d.v, ticks |-> TickZero]
                    ELSE [n |-> 2, pid |-> d.v, ticks |-> u.v]

(***************************************************************************)
(* JSON documents.  An object is a function from its keys; the values the  *)
(* clock parser and the dispatcher look at are tagged records.             *)
(***************************************************************************)
PACKAGE_VERSION == "PACKAGE_VERSION"

set_prop(obj, key, val) ==
  [k \in (DOMAIN obj) \cup {key} |-> IF k = key THEN val ELSE obj[k]]

\* a faulty make_response that leaves the object empty: the envelope
\* property tells it from the code's
make_response_empty == [k \in {} |-> PACKAGE_VERSION]

\* make_response: a fresh object carrying "version"
make_response == [version |-> PACKAGE_VERSION]

JInt(i) == [t |-> "integer", v |-> i]
JStr(chars) == [t |-> "string", v |-> chars]
JArr(elems) == [t |-> "array", v |-> elems]
JNull == [t |-> "null"]
JObj == [t |-> "object"]

json_is_integer(j) == j.t = "integer"
json_is_string(j) == j.t = "string"
\* json_array_size is 0 for a value that is no array
json_array_size(j) == IF j.t = "array" THEN Len(j.v) ELSE 0

(***************************************************************************)
(* The state.                                                              *)
(***************************************************************************)
NULL == 0
Fds == 1..MaxFd
\* threads: the worker of a session is named by its fd
NoThread == NULL
ListenerThread == MaxFd + 1
ExtThread == MaxFd + 2

\* the levels of watchman.h: a session's log_level is W_LOG_OFF or a
\* threshold; a message of level l goes to the sessions with log_level >= l
W_LOG_OFF == 0
W_LOG_ERR == 1
W_LOG_DBG == 2

VARIABLES
  \* ---- the root (w_root_t): ticks, the cursor table, its lock
  rootTicks,    \* root->ticks, a 32-bit tick
  cursors,      \* root->cursors: cursor name -> tick
  rootLock,     \* the thread holding the root lock, or NoThread
  \* ---- the activations of the clock service, one per calling thread
  call,         \* thread -> the activation of w_parse_clockspec / annotate
  ncalls,       \* calls started so far
  \* ---- the sessions
  clients,      \* the registry: the fds whose session is registered
  client,       \* fd -> struct watchman_client
  nodes,        \* the live struct watchman_client_response, by serial
  nalloc,       \* response nodes calloc'ed so far (the last serial given)
  w_client_lock,\* [owner, depth]: the recursive sessions lock
  listener_fd,  \* the listening socket, -1 once shut down
  lst,          \* the accept thread: [pc, fd, n], n the sessions accepted
  wk,           \* fd -> the worker of that session: [pc, rev0, rev1, request,
                \* func, resp, err]; err is the node of its decode-error answer
  ext,          \* the external thread: [pc, held, level, fails]; held counts the
                \* locks it took itself, fails the sessions whose calloc failed
                \* in its last w_log_to_clients
  reaper,       \* the reaper thread's position
  running,      \* FALSE once exit(0) was called
  \* ---- history
  wire,         \* fd -> the serials of the responses the worker wrote, in order
  curHist       \* cursor name -> what its resolutions returned so far

rootVars == <<rootTicks, cursors, rootLock, call, ncalls>>
sessVars == <<clients, client, nodes, nalloc, w_client_lock, listener_fd, lst, wk,
              ext, reaper, running, wire>>
vars == <<rootTicks, cursors, rootLock, call, ncalls,
          clients, client, nodes, nalloc, w_client_lock, listener_fd, lst, wk,
          ext, reaper, running, wire, curHist>>

(***************************************************************************)
(* The recursive sessions lock (PTHREAD_MUTEX_RECURSIVE).                  *)
(***************************************************************************)
Unlocked == [owner |-> NoThread, depth |-> 0]

\* a faulty unlock that gives the lock up whatever its depth: the logging
\* property tells it from the recursive mutex's
pthread_mutex_unlock_all(l, t) == [owner |-> NoThread, depth |-> 0]

\* a thread can take the lock when it is free or its own
CanLock(l, t) == l.owner \in {NoThread, t}

pthread_mutex_lock(l, t) ==
  IF l.owner = t THEN [l EXCEPT !.depth = @ + 1] ELSE [owner |-> t, depth |-> 1]

pthread_mutex_unlock(l, t) ==
  IF l.depth > 1 THEN [l EXCEPT !.depth = @ - 1] ELSE Unlocked

(***************************************************************************)
(* The sessions' memory: h = [client, nodes, nalloc].                 *)
(***************************************************************************)
\* a struct watchman_client that is not allocated (or was freed)
NoClient == [open |-> FALSE, log_level |-> W_LOG_OFF, head |-> NULL, tail |-> NULL,
             ping |-> 0]
\* calloc(1, sizeof(*client)) with fd and the wakeup pipe set up
NewClient == [open |-> TRUE, log_level |-> W_LOG_OFF, head |-> NULL, tail |-> NULL,
              ping |-> 0]

Heap == [client |-> client, nodes |-> nodes, nalloc |-> nalloc]

\* a faulty enqueue_response that links the new node at the head of the
\* queue: the ordering property tells it from the code's
enqueue_response_at_head(h, fd, json, ping, calloc_ok) ==
  IF ~calloc_ok THEN [h |-> h, ret |-> FALSE]
  ELSE
    LET resp == h.nalloc + 1
        c == h.client[fd]
        fresh == (resp :> [json |-> json, next |-> c.head])
        c1 == [c EXCEPT !.head = resp,
                        !.tail = IF c.tail # NULL THEN c.tail ELSE resp,
                        !.ping = IF ping THEN Min(c.ping + 1, MaxPing) ELSE c.ping]
    IN  [h |-> [client |-> [h.client EXCEPT ![fd] = c1],
                nodes |-> h.nodes @@ fresh,
                nalloc |-> resp],
         ret |-> TRUE]

\* a faulty enqueue_response that writes the wakeup byte before it looks at
\* calloc's result: the failure property tells it from the code's
enqueue_response_wakes_first(h, fd, json, ping, calloc_ok) ==
  LET c == h.client[fd]
      woken == [h EXCEPT !.client = [@ EXCEPT ![fd].ping =
                  IF ping THEN Min(c.ping + 1, MaxPing) ELSE c.ping]]
  IN  IF ~calloc_ok THEN [h |-> woken, ret |-> FALSE]
      ELSE
        LET resp == h.nalloc + 1
            fresh == (resp :> [json |-> json, next |-> NULL])
            linked == IF c.tail # NULL
                      THEN [n \in DOMAIN h.nodes |->
                              IF n = c.tail THEN [h.nodes[n] EXCEPT !.next = resp]
                              ELSE h.nodes[n]]
                      ELSE h.nodes
            c1 == [woken.client[fd] EXCEPT
                     !.head = IF c.tail # NULL THEN c.head ELSE resp, !.tail = resp]
        IN  [h |-> [client |-> [h.client EXCEPT ![fd] = c1],
                    nodes |-> linked @@ fresh,
                    nalloc |-> resp],
             ret |-> TRUE]

\* enqueue_response(client, json, ping); calloc_ok is calloc's outcome.
\* Must be called with w_client_lock held.
enqueue_response(h, fd, json, ping, calloc_ok) ==
  IF ~calloc_ok THEN [h |-> h, ret |-> FALSE]
  ELSE
    LET resp == h.nalloc + 1
        c == h.client[fd]
        fresh == (resp :> [json |-> json, next |-> NULL])
        linked == IF c.tail # NULL
                  THEN [n \in DOMAIN h.nodes |->
                          IF n = c.tail THEN [h.nodes[n] EXCEPT !.next = resp]
                          ELSE h.nodes[n]]
                  ELSE h.nodes
        c1 == [c EXCEPT !.head = IF c.tail # NULL THEN c.head ELSE resp,
                        !.tail = resp,
                        \* write(client->ping[1], "a", 1), non-blocking
                        !.ping = IF ping THEN Min(c.ping + 1, MaxPing) ELSE c.ping]
    IN  [h |-> [client |-> [h.client EXCEPT ![fd] = c1],
                nodes |-> linked @@ fresh,
                nalloc |-> resp],
         ret |-> TRUE]

\* send_and_dispose_response: lock, enqueue without a wakeup, unlock; the
\* document is released when the enqueue failed
send_and_dispose_response(h, fd, response, calloc_ok) ==
  enqueue_response(h, fd, response, FALSE, calloc_ok).h

\* the json_decref calls of a caller of enqueue_response
\* (send_and_dispose_response, w_log_to_clients) on its document: one when
\* the enqueue failed, none when the queue took the document over
json_decref_calls(h, fd, json, ping, calloc_ok) ==
  IF ~enqueue_response(h, fd, json, ping, calloc_ok).ret THEN 1 ELSE 0

\* a faulty send_error_response that answers twice: the dispatcher's
\* property tells it from the code's
send_error_response_twice(h, fd, msg, calloc_ok) ==
  LET json == set_prop(make_response, "error", msg)
  IN  send_and_dispose_response(send_and_dispose_response(h, fd, json, calloc_ok),
                                fd, json, calloc_ok)

\* send_error_response(client, fmt, ...): msg is the formatted text
send_error_response(h, fd, msg, calloc_ok) ==
  send_and_dispose_response(h, fd, set_prop(make_response, "error", msg), calloc_ok)

\* the nodes reached from n by next
RECURSIVE Chain(_, _)
Chain(ns, n) ==
  IF n = NULL \/ n \notin DOMAIN ns THEN {} ELSE {n} \cup Chain(ns, ns[n].next)

\* a faulty client_delete that closes the session and leaves its queued
\* responses allocated: the destruction property tells it from the code's
client_delete_leaks(h, fd) ==
  [h EXCEPT !.client = [@ EXCEPT ![fd] = [@ EXCEPT !.open = FALSE]]]

\* client_delete: frees the queued responses, the buffers and the client,
\* closes the wakeup pipe and the connection
client_delete(h, fd) ==
  LET gone == Chain(h.nodes, h.client[fd].head)
  IN  [h EXCEPT !.client = [@ EXCEPT ![fd] = NoClient],
                !.nodes = [n \in (DOMAIN h.nodes) \ gone |-> h.nodes[n]]]

\* w_ht_del(clients, fd): removes the entry and runs client_delete on it
w_ht_del(reg, h, fd) ==
  IF fd \in reg THEN [reg |-> reg \ {fd}, h |-> client_delete(h, fd)]
  ELSE [reg |-> reg, h |-> h]

\* a faulty test that compares the other way round: the broadcast's property
\* tells it from the code's
LogEligible_reversed(c, level) == c.log_level # W_LOG_OFF /\ c.log_level <= level

\* the test of w_log_to_clients on one session
LogEligible(c, level) == c.log_level # W_LOG_OFF /\ c.log_level >= level

SetMin(S) == CHOOSE x \in S : \A y \in S : x <= y

\* the loop of w_log_to_clients over the registry; fails are the sessions
\* for which calloc fails
RECURSIVE LogLoop(_, _, _, _, _)
LogLoop(h, todo, level, buf, fails) ==
  IF todo = {} THEN h
  ELSE
    LET fd == SetMin(todo)
        json == set_prop(make_response, "log", buf)
        h1 == IF LogEligible(h.client[fd], level)
              THEN enqueue_response(h, fd, json, TRUE, fd \notin fails).h
              ELSE h
    IN  LogLoop(h1, todo \ {fd}, level, buf, fails)

\* w_log_to_clients(level, buf), run with the lock available
w_log_to_clients(reg, h, level, buf, fails) == LogLoop(h, reg, level, buf, fails)

\* w_log(level, ...): the log sink hands every line to w_log_to_clients
w_log(reg, h, level, buf, fails) == w_log_to_clients(reg, h, level, buf, fails)

\* the sessions a log line of this level is enqueued on if calloc allows
EligibleSet(reg, cl, level) == {fd \in reg : LogEligible(cl[fd], level)}

\* room for k more response nodes within the model's bound
Room(k) == nalloc + k <= MaxMsgs

SetHeap(h) ==
  /\ client' = h.client
  /\ nodes' = h.nodes
  /\ nalloc' = h.nalloc

(***************************************************************************)
(* The dispatcher.                                                         *)
(***************************************************************************)
\* the names of commands[], registered by register_commands
command_funcs ==
  {"find", "since", "query", "watch", "watch-list", "watch-del", "trigger",
   "trigger-list", "trigger-del", "subscribe", "unsubscribe", "shutdown-server",
   "log-level", "log", "version", "clock", "get-sockname", "get-pid"}

NoFunc == "no handler"

\* the requests a peer sends in this model
Requests ==
  { JObj, JArr(<<>>), JArr(<<JInt(1)>>), JArr(<<JStr("nope")>>),
    JArr(<<JStr("version")>>),
    JArr(<<JStr("log-level"), JStr("debug")>>),
    JArr(<<JStr("log-level"), JStr("error")>>),
    JArr(<<JStr("shutdown-server")>>) }

NoRequest == [t |-> "none"]

\* cmd_version: one response
cmd_version(h, fd, args, calloc_ok) ==
  send_and_dispose_response(h, fd, make_response, calloc_ok)

\* cmd_loglevel: sets the session's log level and answers with it
cmd_loglevel(h, fd, args, calloc_ok) ==
  LET name == IF Len(args.v) >= 2 /\ json_is_string(args.v[2]) THEN args.v[2].v ELSE "off"
      level == IF name = "debug" THEN W_LOG_DBG
               ELSE IF name = "error" THEN W_LOG_ERR ELSE W_LOG_OFF
      h1 == [h EXCEPT !.client = [@ EXCEPT ![fd].log_level = level]]
  IN  send_and_dispose_response(h1, fd, set_prop(make_response, "log_level", name),
                                calloc_ok)

\* dispatch_command(client, args): func is the handler that was invoked.
\* cmd_shutdown runs as steps of the worker (below); the handlers of the
\* other commands run here.
dispatch_command(h, fd, args, calloc_ok) ==
  IF json_array_size(args) = 0
  THEN [h |-> send_error_response(h, fd,
                 <<"invalid command (expected an array with some elements!)">>,
                 calloc_ok),
        func |-> NoFunc, ret |-> FALSE]
  ELSE IF ~json_is_string(args.v[1])
  THEN [h |-> send_error_response(h, fd,
                 <<"invalid command: expected element 0 to be the command name">>,
                 calloc_ok),
        func |-> NoFunc, ret |-> FALSE]
  ELSE LET cmd_name == args.v[1].v
       IN  IF cmd_name \in command_funcs
           THEN [h |-> IF cmd_name = "version" THEN cmd_version(h, fd, args, calloc_ok)
                       ELSE IF cmd_name = "log-level"
                       THEN cmd_loglevel(h, fd, args, calloc_ok)
                       ELSE h,
                 func |-> cmd_name, ret |-> TRUE]
           ELSE [h |-> send_error_response(h, fd, <<"unknown command %s", cmd_name>>,
                                           calloc_ok),
                 func |-> NoFunc, ret |-> FALSE]

(***************************************************************************)
(* The accept loop of w_start_listener.                                    *)
(***************************************************************************)
FreeFds == {fd \in Fds : ~client[fd].open /\ wk[fd].pc = "none"}

NoWorker == [pc |-> "none", rev0 |-> {}, rev1 |-> FALSE, request |-> NoRequest,
             func |-> NoFunc, resp |-> NULL, err |-> NULL]

\* accept() gives a connection; the session is built (calloc, pipe)
Accept ==
  /\ running /\ lst.pc = "accept" /\ listener_fd # -1
  /\ lst.n < MaxAccepts
  /\ FreeFds # {}
  /\ LET fd == SetMin(FreeFds)
     IN  /\ client' = [client EXCEPT ![fd] = NewClient]
         /\ lst' = [pc |-> "register", fd |-> fd, n |-> lst.n + 1]
         /\ wire' = [wire EXCEPT ![fd] = <<>>]
         /\ wk' = [wk EXCEPT ![fd] = NoWorker]
  /\ UNCHANGED <<clients, nodes, nalloc, w_client_lock, listener_fd, ext, reaper,
                 running>>
  /\ UNCHANGED <<rootVars, curHist>>

\* lock; w_ht_set(clients, client->fd, client); unlock
Register ==
  /\ running /\ lst.pc = "register"
  /\ CanLock(w_client_lock, ListenerThread)
  /\ clients' = clients \cup {lst.fd}
  /\ lst' = [lst EXCEPT !.pc = "spawn"]
  /\ UNCHANGED <<client, nodes, nalloc, w_client_lock, listener_fd, wk, ext, reaper,
                 running, wire>>
  /\ UNCHANGED <<rootVars, curHist>>

\* pthread_create succeeded: the worker starts (w_set_nonblock, then its loop)
Spawn ==
  /\ running /\ lst.pc = "spawn"
  /\ wk' = [wk EXCEPT ![lst.fd] = [NoWorker EXCEPT !.pc = "poll"]]
  /\ lst' = [lst EXCEPT !.pc = "accept", !.fd = NULL]
  /\ UNCHANGED <<clients, client, nodes, nalloc, w_client_lock, listener_fd, ext,
                 reaper, running, wire>>
  /\ UNCHANGED <<rootVars, curHist>>

\* pthread_create failed
SpawnFails ==
  /\ running /\ lst.pc = "spawn"
  /\ lst' = [lst EXCEPT !.pc = "spawn_failed"]
  /\ UNCHANGED <<clients, client, nodes, nalloc, w_client_lock, listener_fd, wk, ext,
                 reaper, running, wire>>
  /\ UNCHANGED <<rootVars, curHist>>

\* "It didn't work out, sorry!": lock; w_ht_del(clients, client->fd); unlock
SpawnFailedDelete ==
  /\ running /\ lst.pc = "spawn_failed"
  /\ CanLock(w_client_lock, ListenerThread)
  /\ LET d == w_ht_del(clients, Heap, lst.fd)
     IN  /\ clients' = d.reg
         /\ SetHeap(d.h)
  /\ lst' = [lst EXCEPT !.pc = "accept", !.fd = NULL]
  /\ UNCHANGED <<w_client_lock, listener_fd, wk, ext, reaper, running, wire>>
  /\ UNCHANGED <<rootVars, curHist>>

(***************************************************************************)
(* client_thread: the worker of the session with connection fd.            *)
(***************************************************************************)
\* what poll() can report for the connection
Revents == { {}, {"POLLIN"}, {"POLLHUP"}, {"POLLERR"}, {"POLLIN", "POLLHUP"} }
HangUp(rev) == rev \cap {"POLLHUP", "POLLERR"} # {}

\* the decoder's error for a malformed message
jerr == [position |-> 1, text |-> "invalid token"]

\* a faulty exit path that ends the worker and leaves its session in the
\* registry: the registry's property tells it from the code's
disconected_and_left(fd) ==
  /\ CanLock(w_client_lock, fd)
  /\ clients' = clients
  /\ SetHeap(Heap)

\* disconected: lock; w_ht_del(clients, client->fd); unlock; break
disconected(fd) ==
  /\ CanLock(w_client_lock, fd)
  /\ LET d == w_ht_del(clients, Heap, fd)
     IN  /\ clients' = d.reg
         /\ SetHeap(d.h)

\* a faulty worker that, on hang-up, first goes to write what is queued:
\* the hang-up property tells it from the code's
PollHangUp_drains(fd) ==
  /\ running /\ wk[fd].pc = "poll"
  /\ \E rev \in {r \in Revents : HangUp(r)} :
       wk' = [wk EXCEPT ![fd] = [@ EXCEPT !.pc = "drain", !.rev0 = rev,
                                          !.rev1 = client[fd].ping > 0]]
  /\ UNCHANGED <<clients, client, nodes, nalloc, w_client_lock, listener_fd, lst, ext,
                 reaper, running, wire>>
  /\ UNCHANGED <<rootVars, curHist>>

\* poll(pfd, 2, 200) reports hang-up or error on the connection (the peer's
\* doing), with or without input: the worker removes its session and ends
PollHangUp(fd) ==
  /\ running /\ wk[fd].pc = "poll"
  /\ \E rev \in {r \in Revents : HangUp(r)} :
       wk' = [wk EXCEPT ![fd] = [@ EXCEPT !.pc = "none", !.rev0 = rev,
                                          !.rev1 = client[fd].ping > 0]]
  /\ disconected(fd)
  /\ UNCHANGED <<w_client_lock, listener_fd, lst, ext, reaper, running, wire>>
  /\ UNCHANGED <<rootVars, curHist>>

\* poll(pfd, 2, 200) reports nothing for the connection (a timeout, or a
\* wakeup only), or input for which the decoder has no whole message yet
\* (!request && errno == EAGAIN)
PollIdle(fd) ==
  /\ running /\ wk[fd].pc = "poll"
  /\ \E rev \in { {}, {"POLLIN"} } :
       wk' = [wk EXCEPT ![fd] = [@ EXCEPT !.pc = "ping", !.rev0 = rev,
                                          !.rev1 = client[fd].ping > 0]]
  /\ UNCHANGED <<clients, client, nodes, nalloc, w_client_lock, listener_fd, lst, ext,
                 reaper, running, wire>>
  /\ UNCHANGED <<rootVars, curHist>>

\* a faulty worker that removes its session after a decode error and then
\* goes on to its queue instead of leaving the loop: the property of
\* destroyed sessions tells it from the code's
Disconnect_goes_on(fd) ==
  /\ running /\ wk[fd].pc = "disconnect"
  /\ disconected(fd)
  /\ wk' = [wk EXCEPT ![fd] = [@ EXCEPT !.pc = "drain"]]
  /\ UNCHANGED <<w_client_lock, listener_fd, lst, ext, reaper, running, wire>>
  /\ UNCHANGED <<rootVars, curHist>>

\* goto disconected, after the decode error was answered and logged
Disconnect(fd) ==
  /\ running /\ wk[fd].pc = "disconnect"
  /\ disconected(fd)
  /\ wk' = [wk EXCEPT ![fd] = [@ EXCEPT !.pc = "none"]]
  /\ UNCHANGED <<w_client_lock, listener_fd, lst, ext, reaper, running, wire>>
  /\ UNCHANGED <<rootVars, curHist>>

\* poll reports input and w_json_buffer_next a malformed message:
\* send_error_response(client, "invalid json at position %d: %s", ...)
DecodeError(fd) ==
  /\ running /\ wk[fd].pc = "poll"
  /\ CanLock(w_client_lock, fd)
  /\ \E calloc_ok \in BOOLEAN :
       /\ calloc_ok => Room(1)
       /\ SetHeap(send_error_response(Heap, fd,
             <<"invalid json at position %d: %s", jerr.position, jerr.text>>,
             calloc_ok))
       /\ wk' = [wk EXCEPT ![fd] = [@ EXCEPT !.pc = "bad_log", !.rev0 = {"POLLIN"},
                                    !.rev1 = client[fd].ping > 0,
                                    !.err = IF calloc_ok THEN nalloc + 1 ELSE NULL]]
  /\ UNCHANGED <<clients, w_client_lock, listener_fd, lst, ext, reaper, running, wire>>
  /\ UNCHANGED <<rootVars, curHist>>

\* w_log(W_LOG_ERR, "invalid data from client: %s\n", jerr.text); goto disconected
DecodeErrorLog(fd) ==
  /\ running /\ wk[fd].pc = "bad_log"
  /\ CanLock(w_client_lock, fd)
  /\ \E fails \in SUBSET EligibleSet(clients, client, W_LOG_ERR) :
       /\ Room(Cardinality(EligibleSet(clients, client, W_LOG_ERR) \ fails))
       /\ SetHeap(w_log(clients, Heap, W_LOG_ERR, "invalid data from client", fails))
  /\ wk' = [wk EXCEPT ![fd] = [@ EXCEPT !.pc = "disconnect"]]
  /\ UNCHANGED <<clients, w_client_lock, listener_fd, lst, ext, reaper, running, wire>>
  /\ UNCHANGED <<rootVars, curHist>>

\* poll reports input and w_json_buffer_next a request:
\* client->pdu_type = ...; dispatch_command(client, request); json_decref
Dispatch(fd, request) ==
  /\ running /\ wk[fd].pc = "poll"
  /\ CanLock(w_client_lock, fd)
  /\ \E calloc_ok \in BOOLEAN :
       /\ calloc_ok => Room(1)
       /\ LET d == dispatch_command(Heap, fd, request, calloc_ok)
              w == [wk[fd] EXCEPT !.rev0 = {"POLLIN"}, !.rev1 = client[fd].ping > 0,
                                  !.request = request, !.func = d.func]
          IN  IF d.func = "shutdown-server"
              THEN \* cmd_shutdown: w_log(W_LOG_ERR, "shutdown-server was requested")
                   /\ \E fails \in SUBSET EligibleSet(clients, client, W_LOG_ERR) :
                        /\ Room(Cardinality(EligibleSet(clients, client, W_LOG_ERR)
                                            \ fails))
                        /\ SetHeap(w_log(clients, Heap, W_LOG_ERR,
                                         "shutdown-server was requested", fails))
                   /\ ~calloc_ok
                   /\ wk' = [wk EXCEPT ![fd] = [w EXCEPT !.pc = "sd_close"]]
              ELSE /\ SetHeap(d.h)
                   /\ wk' = [wk EXCEPT ![fd] = [w EXCEPT !.pc = "ping"]]
  /\ UNCHANGED <<clients, w_client_lock, listener_fd, lst, ext, reaper, running, wire>>
  /\ UNCHANGED <<rootVars, curHist>>

\* if (pfd[1].revents) read(client->ping[0], buf, sizeof(buf))
PingDrain(fd) ==
  /\ running /\ wk[fd].pc = "ping"
  /\ client' = [client EXCEPT ![fd].ping = IF wk[fd].rev1 THEN 0 ELSE @]
  /\ wk' = [wk EXCEPT ![fd] = [@ EXCEPT !.pc = "drain", !.rev0 = {}, !.rev1 = FALSE,
                                        !.request = NoRequest, !.func = NoFunc]]
  /\ UNCHANGED <<clients, nodes, nalloc, w_client_lock, listener_fd, lst, ext, reaper,
                 running, wire>>
  /\ UNCHANGED <<rootVars, curHist>>

\* a faulty test that never finds a response: the delivery property tells it
\* from the code's
DrainCheck_sees_nothing(fd) ==
  /\ running /\ wk[fd].pc = "drain"
  /\ wk' = [wk EXCEPT ![fd] = [@ EXCEPT !.pc = "poll"]]
  /\ UNCHANGED <<clients, client, nodes, nalloc, w_client_lock, listener_fd, lst, ext,
                 reaper, running, wire>>
  /\ UNCHANGED <<rootVars, curHist>>

\* while (client->head): the test, made without the lock
DrainCheck(fd) ==
  /\ running /\ wk[fd].pc = "drain"
  /\ wk' = [wk EXCEPT ![fd] = [@ EXCEPT !.pc = IF client[fd].head # NULL THEN "pop"
                                               ELSE "poll"]]
  /\ UNCHANGED <<clients, client, nodes, nalloc, w_client_lock, listener_fd, lst, ext,
                 reaper, running, wire>>
  /\ UNCHANGED <<rootVars, curHist>>

\* a faulty dequeue that keeps the sessions lock when it is done: the lock's
\* property tells it from the code's
Pop_holds_lock(fd) ==
  /\ running /\ wk[fd].pc = "pop"
  /\ CanLock(w_client_lock, fd)
  /\ w_client_lock' = pthread_mutex_lock(w_client_lock, fd)
  /\ LET resp == client[fd].head
     IN  IF resp # NULL
         THEN /\ client' = [client EXCEPT
                   ![fd].head = nodes[resp].next,
                   ![fd].tail = IF client[fd].tail = resp THEN NULL ELSE @]
              /\ wk' = [wk EXCEPT ![fd] = [@ EXCEPT !.pc = "write", !.resp = resp]]
         ELSE /\ client' = client
              /\ wk' = [wk EXCEPT ![fd] = [@ EXCEPT !.pc = "drain"]]
  /\ UNCHANGED <<clients, nodes, nalloc, listener_fd, lst, ext, reaper, running, wire>>
  /\ UNCHANGED <<rootVars, curHist>>

\* a faulty dequeue that never resets client->tail: the queue's shape
\* property tells it from the code's
Pop_keeps_tail(fd) ==
  /\ running /\ wk[fd].pc = "pop"
  /\ CanLock(w_client_lock, fd)
  /\ LET resp == client[fd].head
     IN  IF resp # NULL
         THEN /\ client' = [client EXCEPT ![fd].head = nodes[resp].next]
              /\ wk' = [wk EXCEPT ![fd] = [@ EXCEPT !.pc = "write", !.resp = resp]]
         ELSE /\ client' = client
              /\ wk' = [wk EXCEPT ![fd] = [@ EXCEPT !.pc = "drain"]]
  /\ UNCHANGED <<clients, nodes, nalloc, w_client_lock, listener_fd, lst, ext, reaper,
                 running, wire>>
  /\ UNCHANGED <<rootVars, curHist>>

\* de-queue the first response, under the lock
Pop(fd) ==
  /\ running /\ wk[fd].pc = "pop"
  /\ CanLock(w_client_lock, fd)
  /\ LET resp == client[fd].head
     IN  IF resp # NULL
         THEN /\ client' = [client EXCEPT
                   ![fd].head = nodes[resp].next,
                   ![fd].tail = IF client[fd].tail = resp THEN NULL ELSE @]
              /\ wk' = [wk EXCEPT ![fd] = [@ EXCEPT !.pc = "write", !.resp = resp]]
         ELSE /\ client' = client
              /\ wk' = [wk EXCEPT ![fd] = [@ EXCEPT !.pc = "drain"]]
  /\ UNCHANGED <<clients, nodes, nalloc, w_client_lock, listener_fd, lst, ext, reaper,
                 running, wire>>
  /\ UNCHANGED <<rootVars, curHist>>

\* w_clear_nonblock; w_ser_write_pdu(..., resp->json); json_decref; free(resp);
\* w_set_nonblock.  wire records the serial numbers of the nodes whose
\* responses were handed to the connection.
Write(fd) ==
  /\ running /\ wk[fd].pc = "write"
  /\ LET resp == wk[fd].resp
     IN  /\ wire' = [wire EXCEPT ![fd] = Append(@, resp)]
         /\ nodes' = [n \in (DOMAIN nodes) \ {resp} |-> nodes[n]]
  /\ wk' = [wk EXCEPT ![fd] = [@ EXCEPT !.pc = "drain", !.resp = NULL]]
  /\ UNCHANGED <<clients, client, nalloc, w_client_lock, listener_fd, lst, ext, reaper,
                 running>>
  /\ UNCHANGED <<rootVars, curHist>>

(***************************************************************************)
(* cmd_shutdown, after its w_log: the steps of the worker that runs it.    *)
(***************************************************************************)
\* a faulty handler step that closes the socket and leaves listener_fd as it
\* was: the termination property tells it from the code's
ShutdownClose_keeps_fd(fd) ==
  /\ running /\ wk[fd].pc = "sd_close"
  /\ wk' = [wk EXCEPT ![fd] = [@ EXCEPT !.pc = "sd_del"]]
  /\ UNCHANGED <<clients, client, nodes, nalloc, w_client_lock, listener_fd, lst, ext,
                 reaper, running, wire>>
  /\ UNCHANGED <<rootVars, curHist>>

\* close(listener_fd); listener_fd = -1; w_root_free_watched_roots()
ShutdownClose(fd) ==
  /\ running /\ wk[fd].pc = "sd_close"
  /\ listener_fd' = -1
  /\ wk' = [wk EXCEPT ![fd] = [@ EXCEPT !.pc = "sd_del"]]
  /\ UNCHANGED <<clients, client, nodes, nalloc, w_client_lock, lst, ext, reaper,
                 running, wire>>
  /\ UNCHANGED <<rootVars, curHist>>

\* lock; w_ht_del(clients, client->fd); unlock
ShutdownDelete(fd) ==
  /\ running /\ wk[fd].pc = "sd_del"
  /\ CanLock(w_client_lock, fd)
  /\ LET d == w_ht_del(clients, Heap, fd)
     IN  /\ clients' = d.reg
         /\ SetHeap(d.h)
  /\ wk' = [wk EXCEPT ![fd] = [@ EXCEPT !.pc = "sd_join"]]
  /\ UNCHANGED <<w_client_lock, listener_fd, lst, ext, reaper, running, wire>>
  /\ UNCHANGED <<rootVars, curHist>>

\* pthread_join(reaper_thread) returned; cfg_shutdown(); close(0..2); exit(0)
ShutdownExit(fd) ==
  /\ running /\ wk[fd].pc = "sd_join"
  /\ reaper = "done"
  /\ running' = FALSE
  /\ wk' = [wk EXCEPT ![fd] = [@ EXCEPT !.pc = "exited"]]
  /\ UNCHANGED <<clients, client, nodes, nalloc, w_client_lock, listener_fd, lst, ext,
                 reaper, wire>>
  /\ UNCHANGED <<rootVars, curHist>>

(***************************************************************************)
(* child_reaper.                                                           *)
(***************************************************************************)
\* while (listener_fd != -1) { usleep(200000); w_reap_children(true); }
ReaperLoop ==
  /\ running /\ reaper = "loop"
  /\ listener_fd # -1
  /\ UNCHANGED <<sessVars, rootVars, curHist>>

\* the loop's test fails: return 0
ReaperReturn ==
  /\ running /\ reaper = "loop"
  /\ listener_fd = -1
  /\ reaper' = "done"
  /\ UNCHANGED <<clients, client, nodes, nalloc, w_client_lock, listener_fd, lst, wk,
                 ext, running, wire>>
  /\ UNCHANGED <<rootVars, curHist>>

(***************************************************************************)
(* The external thread: code of the watch engine that takes the sessions   *)
(* lock (to dispatch subscriptions) and logs, with or without the lock.    *)
(***************************************************************************)
\* pthread_mutex_lock(&w_client_lock) by the external code
ExtLock ==
  /\ running /\ ext.pc # "log"
  /\ CanLock(w_client_lock, ExtThread)
  /\ ext.held < MaxDepth
  /\ w_client_lock' = pthread_mutex_lock(w_client_lock, ExtThread)
  /\ ext' = [pc |-> "idle", held |-> ext.held + 1, level |-> W_LOG_OFF, fails |-> {}]
  /\ UNCHANGED <<clients, client, nodes, nalloc, listener_fd, lst, wk, reaper, running,
                 wire>>
  /\ UNCHANGED <<rootVars, curHist>>

\* pthread_mutex_unlock(&w_client_lock) by the external code
ExtUnlock ==
  /\ running /\ ext.pc # "log"
  /\ ext.held > 0
  /\ w_client_lock' = pthread_mutex_unlock(w_client_lock, ExtThread)
  /\ ext' = [pc |-> "idle", held |-> ext.held - 1, level |-> W_LOG_OFF, fails |-> {}]
  /\ UNCHANGED <<clients, client, nodes, nalloc, listener_fd, lst, wk, reaper, running,
                 wire>>
  /\ UNCHANGED <<rootVars, curHist>>

\* the external code calls w_log_to_clients(level, buf)
ExtLogCall(level) ==
  /\ running /\ ext.pc # "log"
  /\ ext' = [ext EXCEPT !.pc = "log", !.level = level, !.fails = {}]
  /\ UNCHANGED <<clients, client, nodes, nalloc, w_client_lock, listener_fd, lst, wk,
                 reaper, running, wire>>
  /\ UNCHANGED <<rootVars, curHist>>

\* w_log_to_clients: lock, the loop over the registry, unlock
ExtLog ==
  /\ running /\ ext.pc = "log"
  /\ CanLock(w_client_lock, ExtThread)
  /\ \E fails \in SUBSET EligibleSet(clients, client, ext.level) :
       /\ Room(Cardinality(EligibleSet(clients, client, ext.level) \ fails))
       /\ SetHeap(w_log_to_clients(clients, Heap, ext.level, "log line", fails))
       /\ ext' = [ext EXCEPT !.pc = "logged", !.fails = fails]
  /\ w_client_lock' = pthread_mutex_unlock(pthread_mutex_lock(w_client_lock, ExtThread),
                                           ExtThread)
  /\ UNCHANGED <<clients, listener_fd, lst, wk, reaper, running, wire>>
  /\ UNCHANGED <<rootVars, curHist>>

(***************************************************************************)
(* The sessions subsystem.                                                 *)
(***************************************************************************)
InitRoot ==
  /\ rootTicks = TickZero
  /\ cursors = << >>
  /\ rootLock = NoThread
  /\ call = [t \in Fds |-> [pc |-> "idle"]]
  /\ ncalls = 0
  /\ curHist = << >>

InitSessions ==
  /\ clients = {}
  /\ client = [fd \in Fds |-> NoClient]
  /\ nodes = << >>
  /\ nalloc = 0
  /\ w_client_lock = Unlocked
  /\ listener_fd = 3
  /\ lst = [pc |-> "accept", fd |-> NULL, n |-> 0]
  /\ wk = [fd \in Fds |-> NoWorker]
  /\ ext = [pc |-> "idle", held |-> 0, level |-> W_LOG_OFF, fails |-> {}]
  /\ reaper = "loop"
  /\ running = TRUE
  /\ wire = [fd \in Fds |-> <<>>]

Init == InitRoot /\ InitSessions

(***************************************************************************)
(* The clock and cursor service: w_parse_clockspec and annotate_with_clock *)
(* as run by the threads of the workers (inside a command handler).        *)
(***************************************************************************)
\* a faulty replace that forgets the other entries of the table: the cursor
\* postcondition tells it from w_ht_replace
Put_alone(f, k, v) == [x \in {k} |-> v]

Put(f, k, v) == [x \in (DOMAIN f) \cup {k} |-> IF x = k THEN v ELSE f[x]]

Idle == [pc |-> "idle"]

\* the struct w_clockspec_query the caller hands in: not initialised
SinceIn ==
  [is_timestamp : BOOLEAN, tv_sec : {0}, tv_usec : {7}, ticks : {<<0, 7>>},
   is_fresh_instance : BOOLEAN]

\* the process ids a clock string can carry
Pids == {getpid, 0, 2147483647}

\* root->ticks at the start of a run
TickInit == {TickZero, <<0, Limb - 1>>, <<Limb - 1, Limb - 2>>, TickMax}

\* the values handed to w_parse_clockspec
ClockValues ==
  {JInt(5), JNull, JStr(<<"n", ":", "a">>), JStr(<<"n", ":", "b">>),
   JStr(<<"x">>), JStr(<<"c", ":", "1">>)}
  \cup {JStr(snprintf_clock(pid, t)) : pid \in Pids, t \in {rootTicks, TickZero, TickMax}}

CallSame(t) == \A o \in Fds \ {t} : call'[o] = call[o]

\* a tick of the root changed by something that is not a resolution of cursor
\* `name`: the later resolutions of the other cursors are no longer undisturbed
Disturb(name) ==
  [m \in DOMAIN curHist |->
     IF m = name THEN curHist[m] ELSE [curHist[m] EXCEPT !.dirty = TRUE]]

\* w_parse_clockspec(root, value, since, allow_cursor), up to its first use of
\* the root lock.  root is FALSE for a NULL root.
ParseCall(t, value, allow_cursor, root, since) ==
  /\ call[t].pc = "idle"
  /\ ncalls < MaxCalls
  /\ ncalls' = ncalls + 1
  /\ LET a == [value |-> value, allow_cursor |-> allow_cursor, root |-> root,
               since |-> since, t0 |-> rootTicks]
         str == value.v
         sc == sscanf_clock(str)
         done(sn, ret) == call' = [call EXCEPT ![t] =
                            [pc |-> "ret", a |-> a, since |-> sn, ret |-> ret]]
     IN  IF json_is_integer(value)
         THEN done([since EXCEPT !.is_timestamp = TRUE, !.tv_usec = 0,
                                 !.tv_sec = value.v], TRUE)
         ELSE IF ~json_is_string(value) THEN done(since, FALSE)
         ELSE IF allow_cursor /\ root /\ CharAt(str, 1) = "n" /\ CharAt(str, 2) = ":"
         THEN call' = [call EXCEPT ![t] =
                 [pc |-> "cursor_lock", a |-> a,
                  since |-> [since EXCEPT !.is_timestamp = FALSE], ret |-> FALSE]]
         ELSE IF sc.n = 2
         THEN LET s1 == [since EXCEPT !.ticks = sc.ticks, !.is_timestamp = FALSE]
              IN  IF sc.pid = getpid
                  THEN IF root /\ s1.ticks = rootTicks
                       THEN call' = [call EXCEPT ![t] =
                               [pc |-> "clockid_lock", a |-> a, since |-> s1,
                                ret |-> FALSE]]
                       ELSE done(s1, TRUE)
                  ELSE done([s1 EXCEPT !.is_fresh_instance = TRUE, !.ticks = TickZero],
                            TRUE)
         ELSE done(since, FALSE)
  /\ CallSame(t)
  /\ UNCHANGED <<rootTicks, cursors, rootLock, curHist, sessVars>>

\* w_root_lock(root) of either branch
RootLock(t) ==
  /\ call[t].pc \in {"cursor_lock", "clockid_lock"}
  /\ rootLock = NoThread
  /\ rootLock' = t
  /\ call' = [call EXCEPT ![t].pc = IF @ = "cursor_lock" THEN "cursor" ELSE "clockid"]
  /\ UNCHANGED <<rootTicks, cursors, ncalls, curHist, sessVars>>

\* the cursor branch under the root lock: lookup, ++root->ticks, w_ht_replace,
\* w_log(W_LOG_DBG, "resolved cursor ..."), w_root_unlock, return true
CursorResolve(t) ==
  /\ call[t].pc = "cursor"
  /\ rootLock = t
  /\ CanLock(w_client_lock, t)
  /\ LET name == call[t].a.value.v
         fresh == name \notin DOMAIN cursors
         ticks == IF fresh THEN TickZero ELSE cursors[name]
         sn == [call[t].since EXCEPT !.is_fresh_instance = fresh, !.ticks = ticks]
         old == IF name \in DOMAIN curHist THEN curHist[name]
                ELSE [n |-> 0, prev |-> TickZero, last |-> TickZero, fresh1 |-> FALSE,
                      dirty |-> FALSE, clean |-> TRUE]
     IN  /\ rootTicks' = TickInc(rootTicks)
         /\ cursors' = Put(cursors, name, TickInc(rootTicks))
         /\ call' = [call EXCEPT ![t] = [@ EXCEPT !.pc = "ret", !.since = sn,
                                                  !.ret = TRUE]]
         /\ curHist' = Put(Disturb(name), name,
                           [n |-> Min(old.n + 1, 2), prev |-> old.last, last |-> ticks,
                            fresh1 |-> IF old.n = 0 THEN fresh ELSE old.fresh1,
                            dirty |-> FALSE, clean |-> ~old.dirty])
  /\ \E fails \in SUBSET EligibleSet(clients, client, W_LOG_DBG) :
       /\ Room(Cardinality(EligibleSet(clients, client, W_LOG_DBG) \ fails))
       /\ SetHeap(w_log(clients, Heap, W_LOG_DBG, "resolved cursor", fails))
  /\ rootLock' = NoThread
  /\ UNCHANGED <<ncalls, clients, w_client_lock, listener_fd, lst, wk, ext, reaper,
                 running, wire>>

\* the ClockID branch under the root lock: root->ticks++, unlock, return true
ClockIdBump(t) ==
  /\ call[t].pc = "clockid"
  /\ rootLock = t
  /\ rootTicks' = TickInc(rootTicks)
  /\ rootLock' = NoThread
  /\ call' = [call EXCEPT ![t] = [@ EXCEPT !.pc = "ret", !.ret = TRUE]]
  /\ curHist' = Disturb(<<>>)
  /\ UNCHANGED <<cursors, ncalls, sessVars>>

\* annotate_with_clock(root, resp), by a caller that holds the root lock for it
Annotate(t) ==
  /\ call[t].pc = "idle"
  /\ ncalls < MaxCalls
  /\ ncalls' = ncalls + 1
  /\ rootLock = NoThread
  /\ LET c == current_clock_id_string(rootTicks, 128)
     IN  call' = [call EXCEPT ![t] =
           [pc |-> "annotated",
            resp |-> IF c.ok THEN set_prop(make_response, "clock", c.buf)
                     ELSE make_response]]
  /\ UNCHANGED <<rootTicks, cursors, rootLock, curHist, sessVars>>

\* the caller takes the result and goes on
Return(t) ==
  /\ call[t].pc \in {"ret", "annotated"}
  /\ call' = [call EXCEPT ![t] = Idle]
  /\ UNCHANGED <<rootTicks, cursors, rootLock, ncalls, curHist, sessVars>>

InitClock ==
  /\ rootTicks \in TickInit
  /\ cursors = << >>
  /\ rootLock = NoThread
  /\ call = [t \in Fds |-> Idle]
  /\ ncalls = 0
  /\ curHist = << >>
  /\ InitSessions

\* the clock strings of concurrent callers: this incarnation's or another's,
\* naming the root's current tick or an older one
ClockIdsNow ==
  {JStr(snprintf_clock(pid, t)) : pid \in {getpid, 0}, t \in {rootTicks, TickZero}}

SinceZero ==
  [is_timestamp |-> FALSE, tv_sec |-> 0, tv_usec |-> 0, ticks |-> TickZero,
   is_fresh_instance |-> FALSE]

\* workers parse clockspecs against the same root concurrently
NextClock ==
  \E t \in Fds :
    \/ \E value \in {JInt(5), JStr(<<"n", ":", "a">>), JStr(<<"n", ":", "b">>)}
                    \cup ClockIdsNow :
         ParseCall(t, value, TRUE, TRUE, SinceZero)
    \/ RootLock(t) \/ CursorResolve(t) \/ ClockIdBump(t) \/ Annotate(t) \/ Return(t)

SpecClock == InitClock /\ [][NextClock]_vars

\* one caller, every kind of value, with and without a root and cursors
NextParse ==
  \/ \E value \in ClockValues, allow_cursor \in BOOLEAN, root \in BOOLEAN,
        since \in SinceIn : ParseCall(1, value, allow_cursor, root, since)
  \/ RootLock(1) \/ CursorResolve(1) \/ ClockIdBump(1) \/ Return(1)

SpecParse == InitClock /\ [][NextParse]_vars

Next ==
  \/ Accept \/ Register \/ Spawn \/ SpawnFails \/ SpawnFailedDelete
  \/ \E fd \in Fds :
       \/ PollHangUp(fd) \/ PollIdle(fd) \/ DecodeError(fd) \/ DecodeErrorLog(fd)
       \/ Disconnect(fd) \/ PingDrain(fd) \/ DrainCheck(fd)
       \/ (\E request \in Requests : Dispatch(fd, request))
       \/ Pop(fd) \/ Write(fd)
       \/ ShutdownClose(fd) \/ ShutdownDelete(fd) \/ ShutdownExit(fd)
  \/ ReaperLoop \/ ReaperReturn

Spec == Init /\ [][Next]_vars

(***************************************************************************)
(* The broadcaster: the external thread logs to sessions that are up, each *)
(* with the log level an earlier log-level command left it with.           *)
(***************************************************************************)
InitLog ==
  /\ InitRoot
  /\ clients = Fds
  /\ client \in [Fds -> {[NewClient EXCEPT !.log_level = l] :
                           l \in {W_LOG_OFF, W_LOG_ERR, W_LOG_DBG}}]
  /\ nodes = << >>
  /\ nalloc = 0
  /\ w_client_lock = Unlocked
  /\ listener_fd = 3
  /\ lst = [pc |-> "accept", fd |-> NULL, n |-> MaxAccepts]
  /\ wk = [fd \in Fds |-> [NoWorker EXCEPT !.pc = "poll"]]
  /\ ext = [pc |-> "idle", held |-> 0, level |-> W_LOG_OFF, fails |-> {}]
  /\ reaper = "loop"
  /\ running = TRUE
  /\ wire = [fd \in Fds |-> <<>>]

NextLog ==
  \/ \E fd \in Fds :
       \/ PollHangUp(fd) \/ PollIdle(fd) \/ PingDrain(fd) \/ DrainCheck(fd)
       \/ Pop(fd) \/ Write(fd)
  \/ ExtLock \/ ExtUnlock \/ ExtLog
  \/ \E level \in {W_LOG_ERR, W_LOG_DBG} : ExtLogCall(level)

SpecLog == InitLog /\ [][NextLog]_vars

(***************************************************************************)
(* Properties.                                                             *)
(***************************************************************************)
Range(f) == {f[i] : i \in DOMAIN f}

\* the responses of session fd that are enqueued and not yet written: the
\* queue, and the one its worker has taken off the queue
Queued(fd) == Chain(nodes, client[fd].head)
InHand(fd) == IF wk[fd].pc = "write" THEN {wk[fd].resp} ELSE {}
Written(fd) == Range(wire[fd])

WorkerLive(fd) == wk[fd].pc \notin {"none", "exited"}

\* C1: FIFO per session.  Nodes are numbered by enqueue_response in the order
\* of the enqueues (under the sessions lock), whoever enqueues.  On every
\* session the responses are written in that order, none twice: the written
\* serials increase strictly, the response in the worker's hand is older than
\* the queue, the queue is linked from older to newer, and every response not
\* yet written is newer than every written one.
C1_FifoPerSession ==
  \A fd \in Fds :
    /\ \A i, j \in 1..Len(wire[fd]) : i < j => wire[fd][i] < wire[fd][j]
    /\ \A w \in Written(fd), q \in Queued(fd) \cup InHand(fd) : w < q
    /\ \A r \in InHand(fd), q \in Queued(fd) : r < q
    /\ \A q \in Queued(fd) : nodes[q].next # NULL => q < nodes[q].next
    /\ client[fd].head # NULL =>
         /\ client[fd].tail \in Queued(fd)
         /\ \A q \in Queued(fd) : q <= client[fd].tail

\* a session to which two responses were written while a third, a log line
\* of a broadcaster, waits in its queue
C1_Witness ==
  \E fd \in Fds :
    /\ Len(wire[fd]) >= 2
    /\ \E q \in Queued(fd) : "log" \in DOMAIN nodes[q].json

\* C2: decode failure.  A worker that answered a malformed message with an
\* error response (err is its node) has written that response to the
\* connection by the time it has removed the session and ended.
C2_DecodeErrorWritten ==
  \A fd \in Fds :
    wk[fd].pc = "none" /\ wk[fd].err # NULL => wk[fd].err \in Written(fd)

\* the requests that dispatch_command must refuse, and the text of the error
\* each is answered with
InvalidRequest(args) ==
  \/ args.t # "array"
  \/ args.v = << >>
  \/ args.v[1].t # "string"
  \/ args.v[1].v \notin command_funcs

ErrorText(args) ==
  IF args.t # "array" \/ args.v = << >>
  THEN <<"invalid command (expected an array with some elements!)">>
  ELSE IF args.v[1].t # "string"
  THEN <<"invalid command: expected element 0 to be the command name">>
  ELSE <<"unknown command %s", args.v[1].v>>

\* the step of worker fd that dispatches an invalid request
InvalidDispatchStep(fd) ==
  /\ wk[fd].pc = "poll" /\ wk'[fd].pc # "poll"
  /\ wk'[fd].request # NoRequest
  /\ InvalidRequest(wk'[fd].request)

\* the step appends exactly one node, carrying json, to the queue of fd and
\* changes no other queue
EnqueuedOne(fd, json) ==
  /\ nalloc' = nalloc + 1
  /\ DOMAIN nodes' = DOMAIN nodes \cup {nalloc'}
  /\ DOMAIN nodes'[nalloc'].json = DOMAIN json
  /\ nodes'[nalloc'] = [json |-> json, next |-> NULL]
  /\ \A n \in DOMAIN nodes :
       nodes'[n] = IF n = client[fd].tail THEN [nodes[n] EXCEPT !.next = nalloc']
                   ELSE nodes[n]
  /\ client'[fd].tail = nalloc'
  /\ client'[fd].head = IF client[fd].head = NULL THEN nalloc' ELSE client[fd].head
  /\ client'[fd].open = client[fd].open
  /\ client'[fd].log_level = client[fd].log_level
  /\ \A o \in Fds \ {fd} : client'[o] = client[o]

\* the step leaves every queue as it was
EnqueuedNone == nalloc' = nalloc /\ nodes' = nodes /\ client' = client

\* the worker of fd is on its way back to poll for the next request
GoesOn(fd) ==
  /\ wk'[fd].pc = "ping"
  /\ fd \in clients' /\ client'[fd].open

\* C3 as stated: dispatching an invalid request invokes no handler, enqueues
\* exactly one error response with the text of its case on the requesting
\* session, and leaves the session registered and open, its worker going on.
C3_ExactlyOneError ==
  [][\A fd \in Fds :
       InvalidDispatchStep(fd) =>
         /\ wk'[fd].func = NoFunc
         /\ EnqueuedOne(fd, [version |-> PACKAGE_VERSION,
                             error |-> ErrorText(wk'[fd].request)])
         /\ GoesOn(fd)]_vars

\* C3: dispatching an invalid request invokes no handler, enqueues exactly
\* one error response with the text of its case on the requesting session,
\* or none when the allocation of the queue node fails, and leaves the
\* session registered and open, its worker going on.
C3_InvalidDispatch ==
  [][\A fd \in Fds :
       InvalidDispatchStep(fd) =>
         /\ wk'[fd].func = NoFunc
         /\ \/ EnqueuedOne(fd, [version |-> PACKAGE_VERSION,
                                error |-> ErrorText(wk'[fd].request)])
            \/ EnqueuedNone
         /\ GoesOn(fd)]_vars

\* a worker back from dispatching an unknown command: no handler ran and
\* the error response is the last of its session's queue
C3_Witness ==
  \E fd \in Fds :
    /\ wk[fd].pc = "ping" /\ wk[fd].request = JArr(<<JStr("nope")>>)
    /\ wk[fd].func = NoFunc
    /\ fd \in clients /\ client[fd].tail # NULL
    /\ "error" \in DOMAIN nodes[client[fd].tail].json
    /\ nodes[client[fd].tail].json["error"] = <<"unknown command %s", "nope">>

\* C8 as stated: every session in the registry has a live worker.
C8_EveryEntryHasWorker == \A fd \in clients : WorkerLive(fd)

\* C8: every session in the registry has a live worker, or is the session
\* the listener has just registered and is about to start the worker of, or
\* to remove again because the worker could not be created.  A worker that
\* has ended has its session out of the registry.
C8_RegistryLive ==
  \A fd \in Fds :
    /\ fd \in clients =>
         \/ WorkerLive(fd)
         \/ lst.fd = fd /\ lst.pc \in {"spawn", "spawn_failed"}
    /\ fd \in clients => client[fd].open

\* one session with a running worker, and another whose worker could not be
\* created, registered and waiting for the listener to remove it
C8_Witness ==
  /\ lst.pc = "spawn_failed" /\ lst.fd \in clients
  /\ \E fd \in clients : WorkerLive(fd)

\* C4: cursor monotonicity.  Of the resolutions of one cursor name against
\* the root, the first returns is_fresh_instance = true, and each later one,
\* when nothing else changed root.ticks since the one before, returns ticks
\* strictly greater than the one before returned.
C4_CursorMonotonic ==
  \A name \in DOMAIN curHist :
    LET h == curHist[name]
    IN  /\ h.n >= 1 => h.fresh1
        /\ h.n >= 2 /\ h.clean => TickLess(h.prev, h.last)

\* the step by which the parse of thread t returns
ParseReturns(t) == call[t].pc \in {"idle", "cursor", "clockid"} /\ call'[t].pc = "ret"

\* the value parsed is a clock string "c:<pid>:<ticks>"
IsClockId(a) == json_is_string(a.value) /\ sscanf_clock(a.value.v).n = 2

\* the clock string names this process and the tick the root had when the
\* parse began
NamesCurrentTick(a) ==
  /\ a.root
  /\ sscanf_clock(a.value.v).pid = getpid
  /\ sscanf_clock(a.value.v).ticks = a.t0

\* C5: tick bump on equal ClockID.  When the parse of "c:<this_pid>:t" with
\* root.ticks = t returns, root.ticks is t + 1 (on 32 bits); the parse of a
\* clock string of another pid or another tick leaves root.ticks as it is.
C5_TickBumpOnEqual ==
  [][\A t \in Fds :
       ParseReturns(t) /\ IsClockId(call'[t].a) =>
         IF NamesCurrentTick(call'[t].a)
         THEN rootTicks' = TickInc(call'[t].a.t0)
         ELSE rootTicks' = rootTicks]_vars

\* the parse of thread t has returned and its value was rendered from pid
\* and tk
ParsedRendered(t, pid, tk) ==
  /\ json_is_string(call[t].a.value)
  /\ call[t].a.value.v = snprintf_clock(pid, tk)

\* C6 as stated: the parse of "c:<pid>:<ticks>" yields a non-timestamp
\* result whose ticks is the rendered ticks and whose is_fresh_instance is
\* true exactly when pid is not this process's.
C6_RoundTripEqual ==
  \A t \in Fds :
    call[t].pc = "ret" =>
      \A pid \in Pids, tk \in {call[t].a.t0, TickZero, TickMax} :
        ParsedRendered(t, pid, tk) =>
          /\ call[t].ret
          /\ ~call[t].since.is_timestamp
          /\ call[t].since.ticks = tk
          /\ call[t].since.is_fresh_instance <=> (pid # getpid)

\* C6: the parse of "c:<pid>:<ticks>" succeeds with a non-timestamp result.
\* For this process's pid its ticks is the rendered ticks and its
\* is_fresh_instance is left as the caller supplied it; for another pid its
\* ticks is 0 and its is_fresh_instance is true.
C6_RoundTrip ==
  \A t \in Fds :
    call[t].pc = "ret" =>
      \A pid \in Pids, tk \in {call[t].a.t0, TickZero, TickMax} :
        ParsedRendered(t, pid, tk) =>
          /\ call[t].ret
          /\ ~call[t].since.is_timestamp
          /\ IF pid = getpid
             THEN /\ call[t].since.ticks = tk
                  /\ call[t].since.is_fresh_instance = call[t].a.since.is_fresh_instance
             ELSE /\ call[t].since.ticks = TickZero
                  /\ call[t].since.is_fresh_instance

\* the largest tick, rendered with this process's pid, parsed back to itself
\* into a result whose is_fresh_instance the caller had left true
C6_Witness ==
  /\ call[1].pc = "ret"
  /\ ParsedRendered(1, getpid, TickMax)
  /\ call[1].since.ticks = TickMax
  /\ call[1].since.is_fresh_instance

\* C7: tick monotonicity.  No step of any thread makes root.ticks smaller.
C7_TicksNeverDecrease == [][TickLeq(rootTicks, rootTicks')]_vars

\* the last response of the queue of fd is a log line with this text
LastIsLog(fd, text) ==
  /\ client[fd].tail \in DOMAIN nodes
  /\ DOMAIN nodes[client[fd].tail].json = {"version", "log"}
  /\ nodes[client[fd].tail].json["log"] = text

\* the registered sessions whose log level is enabled and admits the level
\* of the line the external thread logs
Admits(fd) ==
  /\ fd \in clients
  /\ client[fd].log_level # W_LOG_OFF
  /\ client[fd].log_level >= ext.level

\* the lock is the external thread's exactly while that thread holds it, as
\* deep as the thread went
HeldToOutermost ==
  /\ ext.held > 0 => w_client_lock = [owner |-> ExtThread, depth |-> ext.held]
  /\ ext.held = 0 => w_client_lock.owner # ExtThread

\* a thread that holds the lock can go through w_log_to_clients
NeverBlocksOnOwnLock == ext.pc = "log" /\ ext.held > 0 => ENABLED ExtLog

\* C9 as stated: a thread that holds the sessions lock and logs through
\* w_log_to_clients is not blocked by that lock, keeps the lock until its
\* outermost unlock, and has the line enqueued on every eligible registered
\* session.
C9_EnqueuedOnEveryEligible ==
  /\ NeverBlocksOnOwnLock
  /\ HeldToOutermost
  /\ ext.pc = "logged" /\ ext.held > 0 =>
       \A fd \in Fds : Admits(fd) => LastIsLog(fd, "log line")

\* C9: a thread that holds the sessions lock and logs through
\* w_log_to_clients is not blocked by that lock, keeps the lock until its
\* outermost unlock, and has the line enqueued on every eligible registered
\* session for which the allocation of the queue node succeeded.
C9_ReentrantLog ==
  /\ NeverBlocksOnOwnLock
  /\ HeldToOutermost
  /\ ext.pc = "logged" /\ ext.held > 0 =>
       \A fd \in Fds : Admits(fd) /\ fd \notin ext.fails => LastIsLog(fd, "log line")

\* the external thread is back from logging with the lock still its own, and
\* an eligible session has the line at the end of its queue
C9_Witness ==
  /\ ext.pc = "logged" /\ ext.held > 0
  /\ w_client_lock.owner = ExtThread
  /\ \E fd \in Fds : Admits(fd) /\ LastIsLog(fd, "log line")

\* the step in which the external thread's w_log_to_clients runs
LogStep == ext.pc = "log" /\ ext'.pc = "logged"

\* the step appends to the queue of fd exactly one fresh node, carrying
\* "log": text, and writes a byte to the session's wakeup pipe
LogAppended(fd, text) ==
  \E n \in (DOMAIN nodes') \ (DOMAIN nodes) :
    /\ DOMAIN nodes'[n].json = {"version", "log"}
    /\ nodes'[n].json["log"] = text
    /\ nodes'[n].next = NULL
    /\ client'[fd].tail = n
    /\ client'[fd].head = IF client[fd].head = NULL THEN n ELSE client[fd].head
    /\ client[fd].tail # NULL => nodes'[client[fd].tail].next = n
    /\ Chain(nodes', client'[fd].head) = Chain(nodes, client[fd].head) \cup {n}
    /\ client'[fd].ping = Min(client[fd].ping + 1, MaxPing)

\* the step leaves the queue and the wakeup pipe of fd as they were
LogSkipped(fd) ==
  /\ client'[fd] = client[fd]
  /\ Chain(nodes', client'[fd].head) = Chain(nodes, client[fd].head)
  /\ \A n \in Chain(nodes, client[fd].head) : nodes'[n] = nodes[n]

\* C10 as stated: w_log_to_clients(level, text) enqueues, with a wakeup,
\* exactly one fresh "log" response on each registered session whose log
\* level is not off and is <= level, and nothing on any other session.
C10_ThresholdAtMostLevel ==
  [][LogStep =>
       \A fd \in Fds :
         IF fd \in clients /\ client[fd].log_level # W_LOG_OFF
                           /\ client[fd].log_level <= ext.level
         THEN LogAppended(fd, "log line")
         ELSE LogSkipped(fd)]_vars

\* C10: w_log_to_clients(level, text) enqueues, with a wakeup, exactly one
\* fresh "log" response on each registered session whose log level is not
\* off and is >= level, unless the allocation of the queue node fails for
\* that session, and nothing on any other session.
C10_LogEligibility ==
  [][LogStep =>
       /\ \A fd \in Fds :
            IF Admits(fd) /\ fd \notin ext'.fails
            THEN LogAppended(fd, "log line")
            ELSE LogSkipped(fd)
       /\ Cardinality((DOMAIN nodes') \ (DOMAIN nodes))
            = Cardinality({fd \in Fds : Admits(fd) /\ fd \notin ext'.fails})]_vars

\* an error-level line was logged: the session at debug level has it, the
\* session with logging off has nothing
C10_Witness ==
  /\ ext.pc = "logged" /\ ext.level = W_LOG_ERR
  /\ \E fd \in clients :
       client[fd].log_level = W_LOG_DBG /\ LastIsLog(fd, "log line")
  /\ \E fd \in clients : client[fd].log_level = W_LOG_OFF /\ client[fd].head = NULL

(***************************************************************************)
(* Scheduling.  The threads are pthreads of one process: a thread that can *)
(* take a step is given the processor in the end, and a poll returns when  *)
(* its timeout is over.  What the peers do (what poll reports, what they   *)
(* send) and whether pthread_create succeeds are not in the program's      *)
(* hands and get no fairness.                                              *)
(***************************************************************************)
\* poll(pfd, 2, 200) returns, with whatever it has to report, after 200 ms
\* at the latest
PollReturns(fd) ==
  \/ PollHangUp(fd) \/ PollIdle(fd) \/ DecodeError(fd)
  \/ \E request \in Requests : Dispatch(fd, request)

Fairness ==
  /\ WF_vars(ReaperReturn)
  /\ \A fd \in Fds :
       /\ WF_vars(PollReturns(fd))
       /\ WF_vars(ShutdownClose(fd)) /\ WF_vars(ShutdownDelete(fd))
       /\ WF_vars(ShutdownExit(fd))
       /\ WF_vars(DecodeErrorLog(fd)) /\ WF_vars(Disconnect(fd))
       /\ WF_vars(PingDrain(fd)) /\ WF_vars(DrainCheck(fd))
       /\ WF_vars(Pop(fd)) /\ WF_vars(Write(fd))

SpecFair == Init /\ [][Next]_vars /\ Fairness

\* C11: shutdown terminates.  Once a worker is in the shutdown-server handler
\* (past its log line), the listening socket is invalidated, the reaper
\* returns, the handler's join completes and the process exits, whatever the
\* listener and the other workers do.
C11_ShutdownTerminates ==
  \A fd \in Fds :
    (wk[fd].pc = "sd_close") ~> (~running /\ listener_fd = -1 /\ reaper = "done")

\* the process has exited from the handler of one session while the worker
\* of another session was still at work
C11_Witness ==
  /\ ~running /\ listener_fd = -1 /\ reaper = "done"
  /\ \E fd \in Fds : wk[fd].pc = "exited"
  /\ \E fd \in Fds : wk[fd].pc \notin {"none", "exited"} /\ fd \in clients

\* the steps that run w_ht_del on session fd: (a) its worker at disconected,
\* (b) its worker in cmd_shutdown, (c) the listener after pthread_create
\* failed
DeletesAsWorker(fd) == wk[fd].pc \in {"poll", "disconnect"} /\ wk'[fd].pc = "none"
DeletesInShutdown(fd) == wk[fd].pc = "sd_del" /\ wk'[fd].pc = "sd_join"
DeletesAsListener(fd) ==
  lst.pc = "spawn_failed" /\ lst.fd = fd /\ lst'.pc = "accept"

\* session fd leaves the registry in this step
Removed(fd) == fd \in clients /\ fd \notin clients'

\* C12: a session is destroyed exactly once.  Every w_ht_del finds its
\* session registered and alive (none runs on a session that is already
\* destroyed); a session leaves the registry by exactly one of the three
\* deleters, and is then closed with its queue freed; and a session is not
\* closed in any other way.
C12_DestroyedOnce ==
  [][\A fd \in Fds :
       /\ DeletesAsWorker(fd) \/ DeletesInShutdown(fd) \/ DeletesAsListener(fd) =>
            client[fd].open /\ Removed(fd)
       /\ Removed(fd) =>
            /\ Cardinality({d \in {"a", "b", "c"} :
                              \/ d = "a" /\ DeletesAsWorker(fd)
                              \/ d = "b" /\ DeletesInShutdown(fd)
                              \/ d = "c" /\ DeletesAsListener(fd)}) = 1
            /\ client'[fd] = NoClient
            /\ Chain(nodes, client[fd].head) \cap DOMAIN nodes' = {}
       /\ client[fd].open /\ ~client'[fd].open => Removed(fd)]_vars

\* a session destroyed by its worker after a decode error: out of the
\* registry, closed, and the error response it had queued freed
C12_Witness ==
  \E fd \in Fds :
    /\ wk[fd].pc = "none" /\ wk[fd].err # NULL
    /\ fd \notin clients /\ client[fd] = NoClient
    /\ wk[fd].err \notin DOMAIN nodes /\ wk[fd].err \notin Written(fd)

\* the step of worker fd that hands one response to
\* send_and_dispose_response: the answer to a decode error, or the answer of
\* dispatch_command or of the handler it ran
SendStep(fd) ==
  \/ wk[fd].pc = "poll" /\ wk'[fd].pc = "bad_log"
  \/ wk[fd].pc = "poll" /\ wk'[fd].pc = "ping" /\ wk'[fd].request # NoRequest

\* a step in which a worker runs w_log(W_LOG_ERR, ...), which broadcasts
LogErrStep ==
  \E w \in Fds : \/ wk[w].pc = "bad_log" /\ wk'[w].pc = "disconnect"
                 \/ wk[w].pc = "poll" /\ wk'[w].pc = "sd_close"

\* the queue of fd and its wakeup pipe are as they were
QueueUntouched(fd) ==
  /\ client'[fd].head = client[fd].head
  /\ client'[fd].tail = client[fd].tail
  /\ client'[fd].ping = client[fd].ping
  /\ Chain(nodes', client'[fd].head) = Chain(nodes, client[fd].head)
  /\ \A n \in Chain(nodes, client[fd].head) : nodes'[n] = nodes[n]

C14_ResponseEnvelope ==
  \A n \in DOMAIN nodes :
    /\ "version" \in DOMAIN nodes[n].json
    /\ nodes[n].json["version"] = PACKAGE_VERSION

\* an error response and a log line are queued at the same time
C14_Witness ==
  /\ \E n \in DOMAIN nodes : "error" \in DOMAIN nodes[n].json
  /\ \E n \in DOMAIN nodes : "log" \in DOMAIN nodes[n].json

\* C15: outbound queue shape.  Whenever the sessions lock is free, every
\* live session has head = NULL exactly when tail = NULL, and otherwise the
\* nodes from head are allocated, tail is among them and is the last one
\* (tail->next = NULL).
C15_QueueShape ==
  w_client_lock.owner = NoThread =>
    \A fd \in Fds :
      client[fd].open =>
        /\ client[fd].head = NULL <=> client[fd].tail = NULL
        /\ client[fd].head # NULL =>
             /\ client[fd].head \in DOMAIN nodes
             /\ client[fd].tail \in Queued(fd)
             /\ nodes[client[fd].tail].next = NULL
             /\ \A q \in Queued(fd) :
                  nodes[q].next = NULL \/ nodes[q].next \in DOMAIN nodes

\* the worker has just taken the last node off a queue that held two: head
\* and tail are both NULL again
C15_Witness ==
  \E fd \in Fds :
    /\ wk[fd].pc = "write" /\ client[fd].open
    /\ client[fd].head = NULL /\ client[fd].tail = NULL
    /\ Len(wire[fd]) >= 1

\* the worker of fd has seen hang-up, an I/O error or a decode error on the
\* connection
Unhealthy(fd) == wk[fd].pc \in {"none", "bad_log", "disconnect"}

\* some session has dispatched shutdown-server
ShuttingDown == \E w \in Fds : wk[w].pc \in {"sd_close", "sd_del", "sd_join", "exited"}

\* response n leaves the queue and the worker's hand of session fd
Leaves(fd, n) ==
  /\ n \in Queued(fd) \cup InHand(fd)
  /\ n \notin (Queued(fd) \cup InHand(fd))'

\* C16 as stated: every response enqueued on a session is written to the
\* connection in the end, unless the connection shows hang-up, an I/O error
\* or a decode error.  In two parts: a response leaves the queue and the
\* worker's hand only written, and a queue that holds a response is drained
\* in the end, with nothing left in the worker's hand.
C16_DeliveredIfHealthy ==
  /\ [][\A fd \in Fds, n \in 1..MaxMsgs :
          Leaves(fd, n) => (n \in Written(fd) \/ Unhealthy(fd))']_vars
  /\ \A fd \in Fds :
       (Queued(fd) # {}) ~>
         ((Queued(fd) = {} /\ InHand(fd) = {}) \/ Unhealthy(fd))

\* C16: every response enqueued on a session is written to the connection in
\* the end, unless the connection shows hang-up, an I/O error or a decode
\* error, or some session dispatches shutdown-server (which removes its own
\* session with its queue and ends the process).  In the same two parts.
C16_Delivery ==
  /\ [][\A fd \in Fds, n \in 1..MaxMsgs :
          Leaves(fd, n) => (n \in Written(fd) \/ Unhealthy(fd) \/ ShuttingDown)']_vars
  /\ \A fd \in Fds :
       (Queued(fd) # {}) ~>
         ((Queued(fd) = {} /\ InHand(fd) = {}) \/ Unhealthy(fd) \/ ShuttingDown)

\* a healthy session, its worker back at poll, to which a response of its own
\* worker and a log line of another thread were both written
C16_Witness ==
  \E fd \in Fds :
    /\ Len(wire[fd]) = 2 /\ wk[fd].pc = "poll" /\ client[fd].head = NULL
    /\ client[fd].log_level # W_LOG_OFF
    /\ ~ShuttingDown

\* the step in which thread t compares the tick of a clock string of this
\* process with root->ticks
ComparesTick(t) ==
  /\ call[t].pc = "idle" /\ call'[t].pc \in {"ret", "clockid_lock"}
  /\ IsClockId(call'[t].a)
  /\ call'[t].a.root
  /\ sscanf_clock(call'[t].a.value.v).pid = getpid

\* the steps in which thread t looks up and updates the cursor table and
\* increments root->ticks
TouchesCursors(t) == call[t].pc = "cursor" /\ call'[t].pc = "ret"
IncrementsTick(t) == call[t].pc = "clockid" /\ call'[t].pc = "ret"

\* C17: root lock discipline.  A thread holds the root's lock in every step
\* in which w_parse_clockspec looks at or changes root->ticks or the cursor
\* table, and the increment after a ClockID comparison finds the tick the
\* comparison saw.
C17_RootLockDiscipline ==
  [][\A t \in Fds :
       /\ ComparesTick(t) => rootLock = t
       /\ TouchesCursors(t) => rootLock = t
       /\ IncrementsTick(t) => rootLock = t /\ rootTicks = call[t].since.ticks]_vars

\* C18: the sessions lock is never held across I/O.  A worker that waits on
\* its connection or writes a response to it does not own the lock; workers
\* own it only inside a step; and while a worker writes, a broadcaster that
\* can have the lock is not kept from enqueueing, nor another worker from
\* removing its session or taking a response off its queue.
C18_NoLockAcrossIO ==
  /\ w_client_lock.owner \notin Fds
  /\ \A fd \in Fds :
       wk[fd].pc = "write" =>
         /\ ext.pc = "log" => ENABLED ExtLog
         /\ \A o \in Fds \ {fd} :
              /\ w_client_lock.owner = NoThread /\ wk[o].pc = "poll" =>
                   ENABLED PollHangUp(o)
              /\ w_client_lock.owner = NoThread /\ wk[o].pc = "pop" =>
                   ENABLED Pop(o)

\* a worker is writing a response to its connection and the broadcaster
\* has, in the meantime, enqueued a log line on the other session
C18_Witness ==
  \E fd \in Fds :
    /\ wk[fd].pc = "write"
    /\ ext.pc = "logged"
    /\ \E o \in Fds \ {fd} : o \in clients /\ LastIsLog(o, "log line")

\* b is a + 1 on 32 bits
Succ32(a, b) ==
  \/ a[2] < Limb - 1 /\ b = <<a[1], a[2] + 1>>
  \/ a[2] = Limb - 1 /\ a[1] < Limb - 1 /\ b = <<a[1] + 1, 0>>
  \/ a = TickMax /\ b = TickZero

\* C19: cursor resolution postcondition.  A resolution of cursor N returns
\* the tick stored for N, not fresh, or 0 and fresh when N is absent; it
\* increments root->ticks by one (on 32 bits), leaves cursors[N] at the new
\* root->ticks and every other entry as it was.  And while nothing else has
\* changed root->ticks since, cursors[N] is root->ticks: the next resolution
\* of N returns the tick the root had after this one.
C19_CursorPostcondition ==
  [][/\ \A t \in Fds :
          TouchesCursors(t) =>
            LET N == call[t].a.value.v
            IN  /\ call'[t].ret /\ ~call'[t].since.is_timestamp
                /\ call'[t].since.is_fresh_instance = (N \notin DOMAIN cursors)
                /\ call'[t].since.ticks =
                     IF N \in DOMAIN cursors THEN cursors[N] ELSE TickZero
                /\ Succ32(rootTicks, rootTicks')
                /\ DOMAIN cursors' = DOMAIN cursors \cup {N}
                /\ cursors'[N] = rootTicks'
                /\ \A M \in DOMAIN cursors \ {N} : cursors'[M] = cursors[M]
     /\ \A N \in DOMAIN curHist' :
          ~curHist'[N].dirty => N \in DOMAIN cursors' /\ cursors'[N] = rootTicks']_vars

\* a second resolution of a cursor has returned, not fresh, with the tick
\* the first one stored, while another cursor is in the table
C19_Witness ==
  \E t \in Fds :
    /\ call[t].pc = "ret" /\ call[t].a.value = JStr(<<"n", ":", "a">>)
    /\ ~call[t].since.is_fresh_instance
    /\ call[t].since.ticks # TickZero
    /\ <<"n", ":", "b">> \in DOMAIN cursors

\* C20: hang-up takes precedence and is silent.  When poll reports hang-up
\* or error on the connection, readable or not, the worker removes its
\* session and ends in that step: no request is decoded or dispatched, no
\* response is produced or written, what was queued is freed unwritten; and
\* nothing more is written to the connection of a worker that has ended.
C20_HangUpSilent ==
  [][\A fd \in Fds :
       /\ wk[fd].pc = "poll" /\ wk'[fd].pc # "poll" /\ HangUp(wk'[fd].rev0) =>
            /\ wk'[fd].pc = "none" /\ Removed(fd)
            /\ wk'[fd].request = NoRequest /\ wk'[fd].func = NoFunc
            /\ wk'[fd].err = NULL /\ wk'[fd].resp = NULL
            /\ nalloc' = nalloc
            /\ wire' = wire
            /\ Queued(fd) \cap DOMAIN nodes' = {}
            /\ Queued(fd) \cap Written(fd)' = {}
       /\ wk[fd].pc = "none" /\ wk'[fd].pc = "none" /\ ~client'[fd].open =>
            wire'[fd] = wire[fd]]_vars

\* a worker ended on a connection that was readable and hung up, with
\* responses that had been queued on its session and were never written
C20_Witness ==
  \E fd \in Fds, o \in Fds :
    /\ fd # o
    /\ wk[fd].pc = "none" /\ wk[fd].rev0 = {"POLLIN", "POLLHUP"}
    /\ fd \notin clients /\ wire[fd] = <<>>
    /\ client[o].open /\ wire[o] = <<>> /\ Queued(o) \cup InHand(o) = {}
    /\ nalloc >= 1 /\ DOMAIN nodes = {}

\* the positions of client_thread (and of cmd_shutdown before its
\* w_ht_del) from which the worker goes on to use its session
UsesSession(fd) ==
  wk[fd].pc \in {"poll", "bad_log", "disconnect", "ping", "drain", "pop", "write",
                 "sd_close", "sd_del"}

\* the steps on session fd: a response is linked to its queue or the wakeup
\* pipe is written, a response is taken off, the head is read, a response is
\* written to the connection
EnqueuesOn(fd) ==
  /\ client'[fd].open
  /\ \/ client'[fd].tail # client[fd].tail /\ client'[fd].tail # NULL
     \/ client'[fd].ping > client[fd].ping
PopsFrom(fd) == wk[fd].pc = "pop" /\ wk'[fd].pc # "pop"
ReadsHead(fd) == wk[fd].pc = "drain" /\ wk'[fd].pc # "drain"
WritesTo(fd) == Len(wire'[fd]) > Len(wire[fd])

\* C21: no use of a destroyed session.  Every session in the registry is
\* alive, and so is the session of every worker that can still touch it;
\* every enqueue, dequeue, read of the head and write to the connection is
\* made on a session that is alive and registered; and a destroyed session
\* stays as client_delete left it.
C21_NoUseAfterDelete ==
  /\ [](\A fd \in Fds :
         /\ fd \in clients => client[fd].open
         /\ UsesSession(fd) => client[fd].open /\ fd \in clients)
  /\ [][\A fd \in Fds :
         /\ EnqueuesOn(fd) \/ PopsFrom(fd) \/ ReadsHead(fd) \/ WritesTo(fd) =>
              client[fd].open /\ fd \in clients
         /\ Removed(fd) => ~UsesSession(fd)'
         /\ ~client[fd].open /\ ~client'[fd].open =>
              client'[fd] = NoClient /\ wire'[fd] = wire[fd]]_vars

\* a session was removed after a decode error and its worker has ended,
\* while the other session's worker writes the log line of that error
C21_Witness ==
  \E fd \in Fds, o \in Fds :
    /\ fd # o
    /\ wk[fd].pc = "none" /\ wk[fd].err # NULL
    /\ ~client[fd].open /\ fd \notin clients
    /\ wk[o].pc = "write"
    /\ "log" \in DOMAIN nodes[wk[o].resp].json

====
